---- MODULE Spec2Model ----
(***************************************************************************)
(* Model of data/data_visualizor/visualization_utils.py: the Open3D scene  *)
(* builders (_draw_points, _draw_bboxes, _draw_bboxes_ind, show_pts_boxes, *)
(* show_pts_index_boxes, class Visualizer) and the image projection        *)
(* helpers (project_pts_on_img, draw_lidar_bbox3d_on_img).                 *)
(*                                                                         *)
(* Numbers.  Coordinates and box sizes are integers; box sizes are even so *)
(* that dim/2 is exact.  A yaw is a number of quarter turns, so the        *)
(* rotation matrix has entries in {-1,0,1}.  A colour channel c stands for *)
(* c/ColorOne.  A segment offset is kept in tenths (1.2 = 12/10).  A       *)
(* projected depth is an integer before it is clipped and the fraction     *)
(* n/d after, so that 1e-5 is exact; pixels are compared as fractions.     *)
(***************************************************************************)
EXTENDS Integers, Sequences, FiniteSets, TLC

VARIABLES
    obj,            \* Visualizer object: "absent" | "alive" | "failed" (__init__ raised)
    window,         \* self.o3d_visualizer window: "none" | "open" | "destroyed"
    cfg,            \* self.rot_axis, self.center_mode, self.mode, self.points_in_box_color
    seg_num,        \* self.seg_num
    has_pcd,        \* whether self.pcd / self.points_colors were set by __init__
    pcd_points,     \* self.pcd.points
    points_colors,  \* self.points_colors
    pcd_colors,     \* self.pcd.colors
    caller_bbox3d,  \* the bbox3d array object the caller passed to the last box call
    last,           \* the last method call: name, arguments, outcome, offset
    vis_ops,        \* viewer operations issued by the last method call, in order
    processed,      \* every box handed to _draw_bboxes so far, with its in-box colour
    show_call,      \* last call of show_pts_boxes / show_pts_index_boxes
    box_call,       \* last call of _draw_bboxes / _draw_bboxes_ind / _write_oriented_bbox
    proj_call       \* last call of project_pts_on_img / draw_lidar_bbox3d_on_img

vars == <<obj, window, cfg, seg_num, has_pcd, pcd_points, points_colors,
          pcd_colors, caller_bbox3d, last, vis_ops, processed,
          show_call, box_call, proj_call>>

visVars == <<obj, window, cfg, seg_num, has_pcd, pcd_points, points_colors,
             pcd_colors, caller_bbox3d, last, vis_ops, processed>>

callVars == <<show_call, box_call, proj_call>>

-----------------------------------------------------------------------------
(* Bounds of the model *)

MaxProcessed == 2   \* boxes handed to one Visualizer over its life
MaxSeg == 3         \* add_seg_mask calls on one Visualizer

-----------------------------------------------------------------------------
(* Values *)

ColorOne == 2 * 255             \* the channel value 1.0, in units of 1/510
ColorHalf == ColorOne \div 2    \* 0.5

Gray == <<ColorHalf, ColorHalf, ColorHalf>>     \* point_color default (0.5, 0.5, 0.5)
Red == <<ColorOne, 0, 0>>                       \* points_in_box_color default (1, 0, 0)
Blue == <<0, 0, ColorOne>>
Red255 == <<255 * ColorOne, 0, 0>>                 \* the colour (255, 0, 0)

Some(v) == [some |-> TRUE, val |-> v]
None == [some |-> FALSE, val |-> <<>>]

Abs(x) == IF x < 0 THEN -x ELSE x

RECURSIVE SeqMax(_)
SeqMax(s) == IF Len(s) = 1 THEN s[1]
             ELSE LET m == SeqMax(Tail(s)) IN IF s[1] > m THEN s[1] ELSE m

RECURSIVE SeqMin(_)
SeqMin(s) == IF Len(s) = 1 THEN s[1]
             ELSE LET m == SeqMin(Tail(s)) IN IF s[1] < m THEN s[1] ELSE m

\* points[:, :3]
Xyz(points) == [i \in 1..Len(points) |-> SubSeq(points[i], 1, 3)]

\* points[:, 3:6]
Rgb(points) == [i \in 1..Len(points) |-> SubSeq(points[i], 4, 6)]

\* (np.array(self.pcd.points).max(0) - np.array(self.pcd.points).min(0))[0]
XExtent(pts) == LET xs == [i \in 1..Len(pts) |-> pts[i][1]]
                IN SeqMax(xs) - SeqMin(xs)

-----------------------------------------------------------------------------
(* _draw_points *)

\* ((points_colors >= 0.0) & (points_colors <= 1.0)).all()
AllInUnit(colors) ==
    \A i \in 1..Len(colors) : \A k \in 1..3 :
        colors[i][k] >= 0 /\ colors[i][k] <= ColorOne

\* points_colors /= 255.0
Div255(colors) ==
    [i \in 1..Len(colors) |-> [k \in 1..3 |-> colors[i][k] \div 255]]

\* np.tile(np.array(point_color), (points.shape[0], 1))
Tile(point_color, n) == [i \in 1..n |-> point_color]

\* The result of _draw_points: raised, or the point cloud handed to the
\* viewer with the colour array that is returned beside it.
_draw_points(points, point_color, mode) ==
    IF mode = "xyz" THEN
        [raised |-> FALSE,
         ops |-> <<"get_render_option", "add_geometry:points">>,
         pcd_points |-> Xyz(points),
         points_colors |-> Tile(point_color, Len(points))]
    ELSE IF mode = "xyzrgb" THEN
        [raised |-> FALSE,
         ops |-> <<"get_render_option", "add_geometry:points">>,
         pcd_points |-> Xyz(points),
         points_colors |-> IF AllInUnit(Rgb(points)) THEN Rgb(points)
                           ELSE Div255(Rgb(points))]
    ELSE
        [raised |-> TRUE,
         ops |-> <<"get_render_option">>,
         pcd_points |-> <<>>,
         points_colors |-> <<>>]

-----------------------------------------------------------------------------
(* _draw_bboxes *)

\* cos and sin of a yaw of q quarter turns
Cos4(q) == CASE q % 4 = 0 -> 1 [] q % 4 = 2 -> -1 [] OTHER -> 0
Sin4(q) == CASE q % 4 = 1 -> 1 [] q % 4 = 3 -> -1 [] OTHER -> 0

ShiftCenterByHeight(row, rot_axis, center_mode) ==
    IF center_mode = "lidar_bottom" THEN
        [row EXCEPT ![rot_axis + 1] = @ + row[6] \div 2]
    ELSE IF center_mode = "camera_bottom" THEN
        [row EXCEPT ![rot_axis + 1] = @ - row[6] \div 2]
    ELSE row

\* center[rot_axis] +=/-= dim[rot_axis] / 2 on row i of the working array
ShiftCenter(row, rot_axis, center_mode) ==
    IF center_mode = "lidar_bottom" THEN
        [row EXCEPT ![rot_axis + 1] = @ + row[3 + rot_axis + 1] \div 2]
    ELSE IF center_mode = "camera_bottom" THEN
        [row EXCEPT ![rot_axis + 1] = @ - row[3 + rot_axis + 1] \div 2]
    ELSE row

\* geometry.OrientedBoundingBox(center, rot_mat, dim), rot_mat the rotation
\* of yaw[rot_axis] = sign * bbox3d[i, 6] about rot_axis
OrientedBoundingBox(row, rot_axis, sign) ==
    [center |-> SubSeq(row, 1, 3),
     extent |-> SubSeq(row, 4, 6),
     axis |-> rot_axis,
     turns |-> sign * row[7]]

\* R^T (p - center) for the box's rotation matrix R
BoxLocal(box3d, p) ==
    LET d == [k \in 1..3 |-> p[k] - box3d.center[k]]
        c == Cos4(box3d.turns)
        s == Sin4(box3d.turns)
    IN CASE box3d.axis = 0 -> <<d[1], c * d[2] + s * d[3], c * d[3] - s * d[2]>>
         [] box3d.axis = 1 -> <<c * d[1] - s * d[3], d[2], s * d[1] + c * d[3]>>
         [] box3d.axis = 2 -> <<c * d[1] + s * d[2], c * d[2] - s * d[1], d[3]>>

\* box3d.get_point_indices_within_bounding_box(pcd.points)
get_point_indices_within_bounding_box(box3d, pts) ==
    {i \in 1..Len(pts) :
        \A k \in 1..3 : 2 * Abs(BoxLocal(box3d, pts[i])[k]) <= box3d.extent[k]}

RecolorFirstOnly(colors, indices, in_box_color) ==
    [i \in 1..Len(colors) |->
        IF i \in indices /\ \A j \in indices : i <= j THEN in_box_color
        ELSE colors[i]]

\* points_colors[indices] = in_box_color
Recolor(colors, indices, in_box_color) ==
    [i \in 1..Len(colors) |-> IF i \in indices THEN in_box_color ELSE colors[i]]

\* the loop of _draw_bboxes over boxes[i..], on the colours so far
RECURSIVE BboxLoop(_, _, _, _, _, _)
BboxLoop(i, boxes, colors, pcd, in_box_color, mode) ==
    IF i > Len(boxes) THEN colors
    ELSE BboxLoop(i + 1, boxes,
                  IF pcd.some /\ mode = "xyz"
                  THEN Recolor(colors,
                               get_point_indices_within_bounding_box(boxes[i], pcd.val),
                               in_box_color)
                  ELSE colors,
                  pcd, in_box_color, mode)

CallerArrayShared(bbox3d, work) == work

\* bbox3d = bbox3d.copy(): what the caller's array holds after the call
CallerArray(bbox3d, work) == bbox3d

BoxOpsUpdateFirst(n, pcd) ==
    (IF pcd.some THEN <<"update_geometry">> ELSE <<>>)
        \o [k \in 1..n |-> "add_geometry:box"]

\* the viewer operations of _draw_bboxes and _draw_bboxes_ind on n boxes
BoxOps(n, pcd) ==
    [k \in 1..n |-> "add_geometry:box"]
        \o (IF pcd.some THEN <<"update_geometry">> ELSE <<>>)

\* The result of _draw_bboxes: the caller's array after the call, the boxes
\* handed to the viewer, the colour array (changed in place) and, when a
\* point cloud is given, the colours set on it.
_draw_bboxes(bbox3d, colors, pcd, in_box_color, rot_axis, center_mode, mode) ==
    LET work == [i \in 1..Len(bbox3d) |-> ShiftCenter(bbox3d[i], rot_axis, center_mode)]
        boxes == [i \in 1..Len(bbox3d) |-> OrientedBoundingBox(work[i], rot_axis, 1)]
    IN [bbox3d |-> CallerArray(bbox3d, work),
        boxes |-> boxes,
        points_colors |-> BboxLoop(1, boxes, colors, pcd, in_box_color, mode),
        ops |-> BoxOps(Len(bbox3d), pcd)]

-----------------------------------------------------------------------------
(* _draw_bboxes_ind *)

ColumnFirst(indices, i) == {p \in 1..Len(indices) : indices[p][1] # 0}

\* indices[:, i].astype(np.bool), as the set of the rows it selects
Column(indices, i) == {p \in 1..Len(indices) : indices[p][i] # 0}

\* the loop of _draw_bboxes_ind over boxes[i..], on the colours so far
RECURSIVE BboxIndLoop(_, _, _, _, _, _, _)
BboxIndLoop(i, n, colors, indices, pcd, in_box_color, mode) ==
    IF i > n THEN colors
    ELSE BboxIndLoop(i + 1, n,
                     IF pcd.some /\ mode = "xyz"
                     THEN Recolor(colors, Column(indices.val, i), in_box_color)
                     ELSE colors,
                     indices, pcd, in_box_color, mode)

\* The result of _draw_bboxes_ind.  With indices = None the first
\* indices[:, i] raises TypeError, after the first box was added.
_draw_bboxes_ind(bbox3d, indices, colors, pcd, in_box_color, rot_axis, center_mode, mode) ==
    LET work == [i \in 1..Len(bbox3d) |-> ShiftCenter(bbox3d[i], rot_axis, center_mode)]
        boxes == [i \in 1..Len(bbox3d) |-> OrientedBoundingBox(work[i], rot_axis, -1)]
        raised == Len(bbox3d) > 0 /\ pcd.some /\ mode = "xyz" /\ ~indices.some
    IN IF raised
       THEN [raised |-> TRUE,
             bbox3d |-> CallerArray(bbox3d, work),
             boxes |-> SubSeq(boxes, 1, 1),
             points_colors |-> colors,
             ops |-> <<"add_geometry:box">>]
       ELSE [raised |-> FALSE,
             bbox3d |-> CallerArray(bbox3d, work),
             boxes |-> boxes,
             points_colors |-> BboxIndLoop(1, Len(bbox3d), colors, indices, pcd,
                                           in_box_color, mode),
             ops |-> BoxOps(Len(bbox3d), pcd)]

-----------------------------------------------------------------------------
(* _write_oriented_bbox *)

NoBoxes == <<>>

\* np.zeros((1, 7)), the array that stands in for an empty scene_bbox
ZeroBoxes == << <<0, 0, 0, 0, 0, 0, 0>> >>

\* convert_oriented_box_to_trimesh_fmt(box): the box mesh of sizes box[3:6]
\* centered at box[:3], turned by the heading box[6] about Z
convert_oriented_box_to_trimesh_fmt(box) ==
    [center |-> SubSeq(box, 1, 3),
     extent |-> SubSeq(box, 4, 6),
     axis |-> 2,
     turns |-> box[7]]

\* The result of _write_oriented_bbox: the box meshes of the exported scene
_write_oriented_bbox(scene_bbox) ==
    LET boxes == IF Len(scene_bbox) = 0 THEN ZeroBoxes ELSE scene_bbox
    IN [raised |-> FALSE,
        meshes |-> [i \in 1..Len(boxes) |->
                       convert_oriented_box_to_trimesh_fmt(boxes[i])]]

-----------------------------------------------------------------------------
(* Inputs *)

\* rows (x, y, z, r, g, b); CloudA has x-extent 3, CloudB x-extent 2
CloudA == << <<0, 0, 0, 0, ColorHalf, ColorOne>>,
             <<0, 0, 2, ColorOne, 0, 0>>,
             <<3, 0, 0, 0, 0, 0>> >>
CloudB == << <<1, 0, 0, 255 * ColorOne, 0, 0>>,
             <<-1, 1, 0, 0, 128 * ColorOne, 0>> >>

\* rows (x, y, z, x_size, y_size, z_size, yaw)
BoxA == <<0, 0, 0, 2, 2, 2, 0>>
BoxB == <<2, 0, 0, 2, 4, 2, 1>>
BoxC == <<1, -1, 0, 2, 4, 6, 3>>

BoxArrays == {<<>>, <<BoxA>>, <<BoxB>>, <<BoxA, BoxB>>, <<BoxB, BoxA>>}

\* seg_mask_colors, rows (x, y, z, r, g, b)
SegMasks == { << <<0, 0, 0, ColorOne, 0, 0>>, <<1, 1, 0, 0, ColorHalf, 0>> >>,
              << <<0, 0, 0, 255 * ColorOne, 0, 0>> >> }

-----------------------------------------------------------------------------
(* class Visualizer *)

NoCall == [op |-> "none", raised |-> FALSE, offset |-> 0, reused |-> FALSE,
           rot_axis |-> 0, bbox3d |-> <<>>, in_box_color |-> <<>>,
           seg_points |-> <<>>, seg_colors |-> <<>>]

NoCfg == [point_color |-> <<>>, points_in_box_color |-> <<>>, rot_axis |-> 0,
          center_mode |-> "", mode |-> ""]

Idle == [fn |-> "none"]

VisInit ==
    /\ obj = "absent"
    /\ window = "none"
    /\ cfg = NoCfg
    /\ seg_num = 0
    /\ has_pcd = FALSE
    /\ pcd_points = <<>>
    /\ points_colors = <<>>
    /\ pcd_colors = <<>>
    /\ caller_bbox3d = <<>>
    /\ last = NoCall
    /\ vis_ops = <<>>
    /\ processed = <<>>

OpsWindowFirst == <<"create_window">>

\* the viewer operations issued before `assert 0 <= rot_axis <= 2`, the first
\* statement of show_pts_boxes, show_pts_index_boxes and Visualizer.__init__
OpsBeforeAssert == <<>>

\* the state of the window after the operations ops
WindowAfter(ops) ==
    IF \E k \in 1..Len(ops) : ops[k] = "destroy_window" THEN "destroyed"
    ELSE IF \E k \in 1..Len(ops) : ops[k] = "create_window" THEN "open"
    ELSE "none"

\* the boxes of one _draw_bboxes call, in the order given, with the colour
\* the call gives to the points inside them
Entries(bbox3d, in_box_color, rot_axis, center_mode) ==
    [i \in 1..Len(bbox3d) |->
        [box |-> OrientedBoundingBox(ShiftCenter(bbox3d[i], rot_axis, center_mode),
                                     rot_axis, 1),
         color |-> in_box_color]]

\* Visualizer.__init__
Construct(points, bbox3d, point_color, in_box_color, rot_axis, center_mode, mode) ==
    LET asserted == 0 <= rot_axis /\ rot_axis <= 2
        dp == _draw_points(points.val, point_color, mode)
        drawn == asserted /\ points.some /\ ~dp.raised
        \* self.points_colors is read before __init__ ever set it
        attrErr == asserted /\ ~points.some /\ bbox3d.some
        boxed == drawn /\ bbox3d.some
        db == _draw_bboxes(bbox3d.val, dp.points_colors, Some(dp.pcd_points),
                           in_box_color, rot_axis, center_mode, mode)
        failed == ~asserted \/ (points.some /\ dp.raised) \/ attrErr
    IN /\ obj = "absent"
       /\ obj' = IF failed THEN "failed" ELSE "alive"
       /\ window' = IF asserted THEN "open" ELSE WindowAfter(OpsBeforeAssert)
       /\ vis_ops' = IF ~asserted THEN OpsBeforeAssert
                     ELSE <<"create_window", "add_geometry:frame">>
                          \o (IF points.some THEN dp.ops ELSE <<>>)
                          \o (IF boxed THEN db.ops ELSE <<>>)
       /\ cfg' = IF ~asserted THEN NoCfg
                 ELSE [point_color |-> point_color,
                       points_in_box_color |-> in_box_color,
                       rot_axis |-> rot_axis,
                       center_mode |-> center_mode,
                       mode |-> mode]
       /\ seg_num' = 0
       /\ has_pcd' = drawn
       /\ pcd_points' = IF drawn THEN dp.pcd_points ELSE <<>>
       /\ points_colors' = IF boxed THEN db.points_colors
                           ELSE IF drawn THEN dp.points_colors ELSE <<>>
       /\ pcd_colors' = points_colors'
       /\ caller_bbox3d' = IF boxed THEN db.bbox3d ELSE bbox3d.val
       /\ processed' = IF boxed
                       THEN Entries(bbox3d.val, in_box_color, rot_axis, center_mode)
                       ELSE <<>>
       /\ last' = [NoCall EXCEPT !.op = "__init__", !.raised = failed,
                                 !.rot_axis = rot_axis,
                                 !.bbox3d = bbox3d.val,
                                 !.in_box_color = in_box_color]
       /\ UNCHANGED callVars

\* Visualizer.add_bboxes
AddBboxes(bbox3d, points_in_box_color, reused) ==
    LET in_box_color == IF points_in_box_color.some THEN points_in_box_color.val
                        ELSE cfg.points_in_box_color
        db == _draw_bboxes(bbox3d, points_colors, Some(pcd_points), in_box_color,
                           cfg.rot_axis, cfg.center_mode, cfg.mode)
    IN /\ obj = "alive"
       /\ Len(processed) + Len(bbox3d) <= MaxProcessed
       /\ last' = [NoCall EXCEPT !.op = "add_bboxes", !.raised = ~has_pcd,
                                 !.reused = reused, !.bbox3d = bbox3d,
                                 !.in_box_color = in_box_color]
       /\ IF has_pcd
          THEN /\ vis_ops' = db.ops
               /\ points_colors' = db.points_colors
               /\ pcd_colors' = db.points_colors
               /\ caller_bbox3d' = db.bbox3d
               /\ processed' = processed \o Entries(bbox3d, in_box_color,
                                                    cfg.rot_axis, cfg.center_mode)
          ELSE \* AttributeError: self.points_colors
               /\ vis_ops' = <<>>
               /\ caller_bbox3d' = bbox3d
               /\ UNCHANGED <<points_colors, pcd_colors, processed>>
       /\ UNCHANGED <<obj, window, cfg, seg_num, has_pcd, pcd_points>>
       /\ UNCHANGED callVars

\* seg_points[:, 0] += offset, coordinates in tenths
Translate(seg_mask_colors, offset) ==
    [i \in 1..Len(seg_mask_colors) |->
        <<10 * seg_mask_colors[i][1] + offset,
          10 * seg_mask_colors[i][2],
          10 * seg_mask_colors[i][3]>>]

NextSegNumStuck(n) == 1

\* self.seg_num += 1
NextSegNum(n) == n + 1

SegOffsetBefore(extent, n) == extent * 12 * (n - 1)

\* (max - min)[0] * 1.2 * self.seg_num, in tenths
SegOffset(extent, n) == extent * 12 * n

\* Visualizer.add_seg_mask
AddSegMask(seg_mask_colors) ==
    LET offset == SegOffset(XExtent(pcd_points), seg_num')
        dp == _draw_points(seg_mask_colors, Gray, "xyzrgb")
    IN /\ obj = "alive"
       /\ seg_num < MaxSeg
       /\ seg_num' = NextSegNum(seg_num)
       /\ IF has_pcd
          THEN /\ vis_ops' = <<"add_geometry:frame">> \o dp.ops
               /\ last' = [NoCall EXCEPT !.op = "add_seg_mask", !.offset = offset,
                              !.seg_points = Translate(seg_mask_colors, offset),
                              !.seg_colors = dp.points_colors]
          ELSE \* AttributeError: self.pcd
               /\ vis_ops' = <<>>
               /\ last' = [NoCall EXCEPT !.op = "add_seg_mask", !.raised = TRUE]
       /\ UNCHANGED <<obj, window, cfg, has_pcd, pcd_points, points_colors,
                      pcd_colors, caller_bbox3d, processed>>
       /\ UNCHANGED callVars

\* Visualizer.show
Show(save_path) ==
    /\ obj = "alive"
    /\ vis_ops' = <<"run">>
                  \o (IF save_path THEN <<"capture_screen_image">> ELSE <<>>)
                  \o <<"destroy_window">>
    /\ window' = "destroyed"
    /\ last' = [NoCall EXCEPT !.op = "show"]
    /\ UNCHANGED <<obj, cfg, seg_num, has_pcd, pcd_points, points_colors,
                   pcd_colors, caller_bbox3d, processed>>
    /\ UNCHANGED callVars

ConstructAny ==
    \E points \in {Some(CloudA), Some(CloudB), None},
       bbox3d \in {Some(<<BoxA>>), None},
       rot_axis \in {0, 2, 3},
       center_mode \in {"lidar_bottom", "gravity"},
       mode \in {"xyz", "xyzrgb", "xyzi"} :
        Construct(points, bbox3d, Gray, Red, rot_axis, center_mode, mode)

\* add_bboxes on an array the caller has just built
AddBboxesNew ==
    \E bbox3d \in BoxArrays, c \in {None, Some(Blue)} : AddBboxes(bbox3d, c, FALSE)

\* add_bboxes on the array object passed to the previous add_bboxes call
AddBboxesAgain ==
    \E c \in {None, Some(Blue)} :
        last.op = "add_bboxes" /\ AddBboxes(caller_bbox3d, c, TRUE)

AddSegMaskAny == \E seg_mask_colors \in SegMasks : AddSegMask(seg_mask_colors)

ShowAny == \E save_path \in BOOLEAN : Show(save_path)

Init ==
    /\ VisInit
    /\ show_call = Idle
    /\ box_call = Idle
    /\ proj_call = Idle

Next ==
    \/ ConstructAny
    \/ AddBboxesNew
    \/ AddBboxesAgain
    \/ AddSegMaskAny
    \/ ShowAny

Spec == Init /\ [][Next]_vars

-----------------------------------------------------------------------------
(* show_pts_boxes, show_pts_index_boxes: one call each behaviour *)

\* The result of show_pts_boxes (indexed = FALSE) or show_pts_index_boxes
\* (indexed = TRUE) on the arguments a: whether it raised, the viewer operations it issued, the
\* window it leaves and the colours last set on the point cloud.
ShowPts(indexed, a, indices, point_color, in_box_color) ==
    LET points == a.points
        bbox3d == a.bbox3d
        show == a.show
        save_path == a.save_path
        rot_axis == a.rot_axis
        center_mode == a.center_mode
        mode == a.mode
        asserted == 0 <= rot_axis /\ rot_axis <= 2
        dp == _draw_points(points, point_color, mode)
        db == IF indexed
              THEN _draw_bboxes_ind(bbox3d.val, indices, dp.points_colors,
                                    Some(dp.pcd_points), in_box_color, rot_axis,
                                    center_mode, mode)
              ELSE [raised |-> FALSE] @@
                   _draw_bboxes(bbox3d.val, dp.points_colors, Some(dp.pcd_points),
                                in_box_color, rot_axis, center_mode, mode)
        head == <<"create_window", "add_geometry:frame">>
        tail == (IF show THEN <<"run">> ELSE <<>>)
                \o (IF save_path THEN <<"capture_screen_image">> ELSE <<>>)
                \o <<"destroy_window">>
    IN IF ~asserted THEN
           [raised |-> TRUE, window |-> WindowAfter(OpsBeforeAssert),
            ops |-> OpsBeforeAssert, boxes |-> <<>>, pcd_colors |-> <<>>]
       ELSE IF dp.raised THEN
           [raised |-> TRUE, window |-> "open", ops |-> head \o dp.ops,
            boxes |-> <<>>, pcd_colors |-> <<>>]
       ELSE IF ~bbox3d.some THEN
           [raised |-> FALSE, window |-> "destroyed",
            ops |-> head \o dp.ops \o tail,
            boxes |-> <<>>, pcd_colors |-> dp.points_colors]
       ELSE IF db.raised THEN
           [raised |-> TRUE, window |-> "open",
            ops |-> head \o dp.ops \o db.ops,
            boxes |-> db.boxes, pcd_colors |-> dp.points_colors]
       ELSE
           [raised |-> FALSE, window |-> "destroyed",
            ops |-> head \o dp.ops \o db.ops \o tail,
            boxes |-> db.boxes, pcd_colors |-> db.points_colors]

ShowArgs ==
    [points : {CloudA},
     bbox3d : {None, Some(<<>>), Some(<<BoxA>>), Some(<<BoxB, BoxA>>)},
     show : BOOLEAN,
     save_path : BOOLEAN,
     rot_axis : {-1, 0, 2, 3},
     center_mode : {"lidar_bottom", "gravity", "depth_bottom"},
     mode : {"xyz", "xyzrgb", "xyzi"},
     point_color : {Gray, Red255},
     points_in_box_color : {Red, Red255}]

\* N x M membership matrices for CloudA and the box arrays of ShowArgs
IndexArgs(bbox3d) ==
    IF ~bbox3d.some \/ Len(bbox3d.val) = 0 THEN {None}
    ELSE IF Len(bbox3d.val) = 1
    THEN {None, Some(<< <<1>>, <<0>>, <<1>> >>)}
    ELSE {None, Some(<< <<1, 0>>, <<0, 0>>, <<1, 1>> >>)}

\* show_pts_boxes
show_pts_boxes ==
    /\ show_call = Idle
    /\ \E a \in ShowArgs :
          show_call' = [fn |-> "show_pts_boxes", args |-> a, indices |-> None] @@
                       ShowPts(FALSE, a, None, a.point_color, a.points_in_box_color)
    /\ UNCHANGED <<visVars, box_call, proj_call>>

\* show_pts_index_boxes
show_pts_index_boxes ==
    /\ show_call = Idle
    /\ \E a \in ShowArgs : \E indices \in IndexArgs(a.bbox3d) :
          show_call' = [fn |-> "show_pts_index_boxes", args |-> a,
                        indices |-> indices] @@
                       ShowPts(TRUE, a, indices, a.point_color,
                               a.points_in_box_color)
    /\ UNCHANGED <<visVars, box_call, proj_call>>

NextShow == show_pts_boxes \/ show_pts_index_boxes

SpecShow == Init /\ [][NextShow]_vars

\* C4: whenever show_pts_boxes or show_pts_index_boxes has ended, normally
\* or with an error, a window it created has been destroyed.
C4_WindowReleased ==
    show_call.fn # "none" => show_call.window # "open"

\* One construction of a Visualizer and one call of show_pts_boxes or
\* show_pts_index_boxes
NextEntry == ConstructAny \/ show_pts_boxes \/ show_pts_index_boxes

SpecEntry == Init /\ [][NextEntry]_vars

\* C12: every colour array that show_pts_boxes or show_pts_index_boxes hands
\* to the viewer has all its channels in [0, 1], whatever point_color and
\* points_in_box_color are in 'xyz' mode and for per-point colours in [0, 1]
\* or [0, 255] in 'xyzrgb' mode.
C12_ColorsInUnit ==
    show_call.fn # "none" => AllInUnit(show_call.pcd_colors)

\* C14: a call of show_pts_boxes or show_pts_index_boxes with a point-colour
\* mode other than 'xyz', 'xyzrgb', or with a center_mode other than
\* 'lidar_bottom', 'camera_bottom', 'gravity', ends with an error and hands no
\* box to the viewer.
C14_InvalidModeRaises ==
    (/\ show_call.fn # "none"
     /\ \/ show_call.args.mode \notin {"xyz", "xyzrgb"}
        \/ show_call.args.center_mode \notin {"lidar_bottom", "camera_bottom", "gravity"})
    => (show_call.raised /\ show_call.boxes = <<>>)

\* the operations C17 names: all but the render-option lookup of _draw_points
Named(o) == o # "get_render_option"

\* the operations C17 expects of the normally completed call in show_call
ExpectedOps ==
    LET a == show_call.args
    IN <<"create_window", "add_geometry:frame", "add_geometry:points">>
       \o (IF a.bbox3d.some
           THEN [k \in 1..Len(a.bbox3d.val) |-> "add_geometry:box"]
                \o <<"update_geometry">>
           ELSE <<>>)
       \o (IF a.show THEN <<"run">> ELSE <<>>)
       \o (IF a.save_path THEN <<"capture_screen_image">> ELSE <<>>)
       \o <<"destroy_window">>

\* C17: on every normally completing call of show_pts_boxes or
\* show_pts_index_boxes the viewer operations come in the order
\* create_window, add the coordinate frame, add the points, add the box
\* wireframes and update the point colours (only if boxes are given), run
\* (only if show), capture_screen_image (only if save_path), destroy_window;
\* create_window and destroy_window happen once each, create_window before
\* every other operation and destroy_window after every other operation.
C17_OperationOrder ==
    (show_call.fn # "none" /\ ~show_call.raised) =>
        LET ops == show_call.ops
        IN /\ SelectSeq(ops, Named) = ExpectedOps
           /\ ops[1] = "create_window"
           /\ ops[Len(ops)] = "destroy_window"
           /\ Cardinality({k \in 1..Len(ops) : ops[k] = "create_window"}) = 1
           /\ Cardinality({k \in 1..Len(ops) : ops[k] = "destroy_window"}) = 1

\* a call with two boxes, show and save_path that completed normally
C17_Witness ==
    /\ show_call.fn = "show_pts_index_boxes"
    /\ ~show_call.raised
    /\ show_call.args.show /\ show_call.args.save_path
    /\ show_call.args.bbox3d.some /\ Len(show_call.args.bbox3d.val) = 2
    /\ Len(show_call.ops) = 10

-----------------------------------------------------------------------------
(* _draw_bboxes, _draw_bboxes_ind called on their own: one call each behaviour *)

BoxRows == {BoxA, BoxB, BoxC}

BoxInputs ==
    {<<>>} \cup {<<a>> : a \in BoxRows} \cup {<<a, b>> : a, b \in BoxRows}

BoxArgs ==
    [bbox3d : BoxInputs,
     pcd : {None, Some(Xyz(CloudA))},
     rot_axis : {0, 1, 2},
     center_mode : {"lidar_bottom", "camera_bottom", "gravity", "depth_bottom"},
     mode : {"xyz", "xyzrgb"}]

\* membership matrices for the three points of CloudA and n boxes
IndexMatrices(n) ==
    IF n = 0 THEN {<< <<>>, <<>>, <<>> >>}
    ELSE IF n = 1 THEN {<< <<0>>, <<0>>, <<0>> >>, << <<1>>, <<0>>, <<1>> >>}
    ELSE {<< <<0, 1>>, <<0, 0>>, <<1, 1>> >>, << <<1, 0>>, <<0, 0>>, <<0, 0>> >>}

\* _draw_bboxes
draw_bboxes ==
    /\ box_call = Idle
    /\ \E a \in BoxArgs :
          box_call' = [fn |-> "_draw_bboxes", args |-> a, indices |-> None,
                       raised |-> FALSE] @@
                      _draw_bboxes(a.bbox3d, Tile(Gray, Len(a.pcd.val)), a.pcd, Red,
                                   a.rot_axis, a.center_mode, a.mode)
    /\ UNCHANGED <<visVars, show_call, proj_call>>

\* _draw_bboxes_ind
draw_bboxes_ind ==
    /\ box_call = Idle
    /\ \E a \in BoxArgs : \E indices \in IndexMatrices(Len(a.bbox3d)) :
          box_call' = [fn |-> "_draw_bboxes_ind", args |-> a,
                       indices |-> Some(indices)] @@
                      _draw_bboxes_ind(a.bbox3d, Some(indices),
                                       Tile(Gray, Len(a.pcd.val)), a.pcd, Red,
                                       a.rot_axis, a.center_mode, a.mode)
    /\ UNCHANGED <<visVars, show_call, proj_call>>

\* _write_oriented_bbox
write_oriented_bbox ==
    /\ box_call = Idle
    /\ \E scene_bbox \in BoxInputs :
          box_call' = [fn |-> "_write_oriented_bbox",
                       args |-> [bbox3d |-> scene_bbox], indices |-> None] @@
                      _write_oriented_bbox(scene_bbox)
    /\ UNCHANGED <<visVars, show_call, proj_call>>

NextBoxes == draw_bboxes \/ draw_bboxes_ind \/ write_oriented_bbox

SpecBoxes == Init /\ [][NextBoxes]_vars

\* C7: every box handed to the viewer has the sizes of its input row and the
\* center of its input row moved, on coordinate rot_axis only, by
\* +size[rot_axis]/2 for 'lidar_bottom', -size[rot_axis]/2 for
\* 'camera_bottom' and 0 for any other center_mode.
C7_CenterShift ==
    box_call.fn \in {"_draw_bboxes", "_draw_bboxes_ind"} =>
        /\ Len(box_call.boxes) = Len(box_call.args.bbox3d)
        /\ box_call.bbox3d = box_call.args.bbox3d
        /\ \A i \in 1..Len(box_call.boxes) :
              LET b == box_call.boxes[i]
                  r == box_call.args.bbox3d[i]
                  a == box_call.args.rot_axis + 1
                  cm == box_call.args.center_mode
              IN /\ b.extent = <<r[4], r[5], r[6]>>
                 /\ \A k \in {1, 2, 3} \ {a} : b.center[k] = r[k]
                 /\ cm = "lidar_bottom" => 2 * (b.center[a] - r[a]) = r[3 + a]
                 /\ cm = "camera_bottom" => 2 * (r[a] - b.center[a]) = r[3 + a]
                 /\ cm \notin {"lidar_bottom", "camera_bottom"} => b.center[a] = r[a]

C7_Witness ==
    /\ box_call.fn = "_draw_bboxes_ind"
    /\ box_call.args.center_mode = "camera_bottom"
    /\ box_call.args.rot_axis = 1
    /\ box_call.args.bbox3d = <<BoxA, BoxC>>
    /\ box_call.boxes[2].center = <<1, -3, 0>>
    /\ box_call.boxes[2].extent = <<2, 4, 6>>

-----------------------------------------------------------------------------
(* project_pts_on_img, plot_rect3d_on_img, draw_lidar_bbox3d_on_img *)

\* A depth is the fraction n / d; a projected depth before clipping is an
\* integer.
DepthMin == [n |-> 1, d |-> 100000]     \* a_min = 1e-5

\* one row of pts_4d @ lidar2img_rt.T, pts_4d = (x, y, z, 1)
Dot4(row, p) == row[1] * p[1] + row[2] * p[2] + row[3] * p[3] + row[4]

ClipDepthMicro(x, a_min, a_max) ==
    IF x <= 0 THEN [n |-> 1, d |-> 10 * a_min.d]
    ELSE IF x > a_max THEN [n |-> a_max, d |-> 1]
    ELSE [n |-> x, d |-> 1]

\* np.clip(pts_2d[:, 2], a_min, a_max) of the integer x: x < a_min.n / a_min.d
\* exactly when x <= (a_min.n - 1) \div a_min.d
ClipDepth(x, a_min, a_max) ==
    IF x <= (a_min.n - 1) \div a_min.d THEN a_min
    ELSE IF x > a_max THEN [n |-> a_max, d |-> 1]
    ELSE [n |-> x, d |-> 1]

\* np.clip(x, a_min, a_max) of an integer
Clip(x, a_min, a_max) ==
    IF x < a_min THEN a_min ELSE IF x > a_max THEN a_max ELSE x

\* int(n / d) for d > 0: the quotient cut toward zero
TruncDiv(n, d) == IF n >= 0 THEN n \div d ELSE -((-n) \div d)

\* round(n / d) for d > 0, halves to the even neighbour (np.round)
RoundDiv(n, d) ==
    LET q == n \div d
        r == n - q * d
    IN IF 2 * r < d THEN q
       ELSE IF 2 * r > d THEN q + 1
       ELSE IF q % 2 = 0 THEN q ELSE q + 1

\* One projected point: pts_2d[:, 0] and [:, 1] before the divide (x, y), the
\* third component as computed (raw) and as clipped (depth).  The pixel is
\* (x / depth, y / depth) = (x * depth.d / depth.n, y * depth.d / depth.n).
ProjectPoint(p, lidar2img_rt, a_max) ==
    [x |-> Dot4(lidar2img_rt[1], p),
     y |-> Dot4(lidar2img_rt[2], p),
     raw |-> Dot4(lidar2img_rt[3], p),
     depth |-> ClipDepth(Dot4(lidar2img_rt[3], p), DepthMin, a_max)]

FovIndsInclusive(pt, shape) ==
    /\ pt.x * pt.depth.d <= shape.W * pt.depth.n
    /\ pt.x >= 0
    /\ pt.y * pt.depth.d <= shape.H * pt.depth.n
    /\ pt.y >= 0

\* fov_inds: pts_2d[:, 0] < img.shape[1], >= 0, pts_2d[:, 1] < img.shape[0], >= 0
FovInds(pt, shape) ==
    /\ pt.x * pt.depth.d < shape.W * pt.depth.n
    /\ pt.x >= 0
    /\ pt.y * pt.depth.d < shape.H * pt.depth.n
    /\ pt.y >= 0

PaletteIndexRounded(max_distance, depth) ==
    Clip(RoundDiv(max_distance * 10 * depth.d, depth.n), 0, 255)

\* np.clip(int(max_distance * 10 / depth), 0, 255)
PaletteIndex(max_distance, depth) ==
    Clip(TruncDiv(max_distance * 10 * depth.d, depth.n), 0, 255)

\* cv2.circle(img, center=(int(np.round(u)), int(np.round(v))), color=cmap[...])
Circle(i, pt, max_distance) ==
    [point |-> i,
     center |-> <<RoundDiv(pt.x * pt.depth.d, pt.depth.n),
                  RoundDiv(pt.y * pt.depth.d, pt.depth.n)>>,
     cmap |-> PaletteIndex(max_distance, pt.depth)]

\* The result of project_pts_on_img: the projected points, and the circles
\* drawn, in order.
project_pts_on_img(points, shape, lidar2img_rt, max_distance) ==
    LET pts_2d == [i \in 1..Len(points) |-> ProjectPoint(points[i], lidar2img_rt, 99999)]
        inds == SelectSeq([i \in 1..Len(points) |-> i],
                          LAMBDA i : FovInds(pts_2d[i], shape))
    IN [pts_2d |-> pts_2d,
        circles |-> [k \in 1..Len(inds) |-> Circle(inds[k], pts_2d[inds[k]], max_distance)],
        lines |-> <<>>]

\* a table that draws the edge (4, 5) twice and never the edge (5, 6)
line_indices_dup == << <<0, 1>>, <<0, 3>>, <<0, 4>>, <<1, 2>>, <<1, 5>>, <<3, 2>>,
                       <<3, 7>>, <<4, 5>>, <<4, 7>>, <<2, 6>>, <<4, 5>>, <<6, 7>> >>

\* line_indices, with the corners numbered from 0
line_indices == << <<0, 1>>, <<0, 3>>, <<0, 4>>, <<1, 2>>, <<1, 5>>, <<3, 2>>,
                   <<3, 7>>, <<4, 5>>, <<4, 7>>, <<2, 6>>, <<5, 6>>, <<6, 7>> >>

\* rect_corners[i].astype(np.int) of one projected corner
CornerPixel(pt) == <<TruncDiv(pt.x * pt.depth.d, pt.depth.n),
                     TruncDiv(pt.y * pt.depth.d, pt.depth.n)>>

\* The cv2.line calls of plot_rect3d_on_img, in order; rect_corners[i] is
\* pts_2d[8 * (i - 1) + 1 .. 8 * i].
plot_rect3d_on_img(num_rects, pts_2d) ==
    [n \in 1..(num_rects * Len(line_indices)) |->
        LET i == (n - 1) \div Len(line_indices)
            e == line_indices[((n - 1) % Len(line_indices)) + 1]
        IN [rect |-> i + 1,
            start |-> CornerPixel(pts_2d[8 * i + e[1] + 1]),
            end |-> CornerPixel(pts_2d[8 * i + e[2] + 1])]]

\* corners_3d.reshape(-1, 3)
Reshape(corners_3d) ==
    [n \in 1..(8 * Len(corners_3d)) |-> corners_3d[((n - 1) \div 8) + 1][((n - 1) % 8) + 1]]

\* The result of draw_lidar_bbox3d_on_img
draw_lidar_bbox3d_on_img(corners_3d, lidar2img_rt) ==
    LET flat == Reshape(corners_3d)
        pts_2d == [i \in 1..Len(flat) |-> ProjectPoint(flat[i], lidar2img_rt, 100000)]
    IN [pts_2d |-> pts_2d,
        circles |-> <<>>,
        lines |-> plot_rect3d_on_img(Len(corners_3d), pts_2d)]

Points3D == { <<0, 0, 10>>, <<3, 1, 1>>, <<4, 2, 1>>, <<5, 2, 2>>,
              <<1, 1, 0>>, <<0, 0, -1>>, <<2, 1, 8>>, <<-1, 0, 1>>,
              <<0, 0, 100002>> }

PointArrays ==
    {<<>>} \cup {<<a>> : a \in Points3D} \cup {<<a, b>> : a, b \in Points3D}

\* the 8 corners of the axis-aligned box with the given minimum corner and sizes
Corners(o, d) ==
    << <<o[1], o[2], o[3]>>,
       <<o[1], o[2], o[3] + d[3]>>,
       <<o[1], o[2] + d[2], o[3] + d[3]>>,
       <<o[1], o[2] + d[2], o[3]>>,
       <<o[1] + d[1], o[2], o[3]>>,
       <<o[1] + d[1], o[2], o[3] + d[3]>>,
       <<o[1] + d[1], o[2] + d[2], o[3] + d[3]>>,
       <<o[1] + d[1], o[2] + d[2], o[3]>> >>

CornerSets == { Corners(<<0, 0, 1>>, <<2, 2, 2>>),
                Corners(<<-1, 1, -1>>, <<2, 4, 2>>),
                Corners(<<3, -2, 0>>, <<4, 2, 100002>>) }

CornerArrays ==
    {<<>>} \cup {<<a>> : a \in CornerSets} \cup {<<a, b>> : a, b \in CornerSets}

Matrices == { << <<1, 0, 0, 0>>, <<0, 1, 0, 0>>, <<0, 0, 1, 0>>, <<0, 0, 0, 1>> >>,
              << <<2, 0, 1, 0>>, <<0, 2, 1, 0>>, <<0, 0, 1, -2>>, <<0, 0, 0, 1>> >> }

Shapes == { [H |-> 3, W |-> 4], [H |-> 4, W |-> 2] }

ProjectPts ==
    /\ proj_call = Idle
    /\ \E points \in PointArrays, shape \in Shapes, lidar2img_rt \in Matrices,
          max_distance \in {70, 1, -7} :
          proj_call' = [fn |-> "project_pts_on_img", points |-> points,
                        shape |-> shape, lidar2img_rt |-> lidar2img_rt,
                        max_distance |-> max_distance] @@
                       project_pts_on_img(points, shape, lidar2img_rt, max_distance)
    /\ UNCHANGED <<visVars, show_call, box_call>>

DrawLidarBbox3d ==
    /\ proj_call = Idle
    /\ \E corners_3d \in CornerArrays, shape \in Shapes, lidar2img_rt \in Matrices :
          proj_call' = [fn |-> "draw_lidar_bbox3d_on_img",
                        points |-> Reshape(corners_3d),
                        shape |-> shape, lidar2img_rt |-> lidar2img_rt,
                        max_distance |-> 0] @@
                       draw_lidar_bbox3d_on_img(corners_3d, lidar2img_rt)
    /\ UNCHANGED <<visVars, show_call, box_call>>

NextProject == ProjectPts \/ DrawLidarBbox3d

SpecProject == Init /\ [][NextProject]_vars

Projected == proj_call.fn # "none"

\* C8: in project_pts_on_img and draw_lidar_bbox3d_on_img every divisor of
\* the perspective divide is at least 1e-5 (it is 1e-5 or an integer >= 1),
\* and is 1e-5 for a point whose projected depth is zero or negative.
C8_DepthClamped ==
    Projected =>
        /\ Len(proj_call.pts_2d) = Len(proj_call.points)
        /\ \A i \in 1..Len(proj_call.pts_2d) :
              LET z == Dot4(proj_call.lidar2img_rt[3], proj_call.points[i])
                  depth == proj_call.pts_2d[i].depth
              IN /\ depth = [n |-> 1, d |-> 100000] \/ (depth.d = 1 /\ depth.n >= 1)
                 /\ z <= 0 => depth = [n |-> 1, d |-> 100000]
                 /\ z > 0 => (depth.d = 1 /\ depth.n <= z)

C8_Witness ==
    /\ proj_call.fn = "draw_lidar_bbox3d_on_img"
    /\ \E i, j, k \in 1..Len(proj_call.pts_2d) :
          /\ proj_call.pts_2d[i].raw < 0 /\ proj_call.pts_2d[i].depth = DepthMin
          /\ proj_call.pts_2d[j].raw = 0 /\ proj_call.pts_2d[j].depth = DepthMin
          /\ proj_call.pts_2d[k].raw = 1 /\ proj_call.pts_2d[k].depth = [n |-> 1, d |-> 1]

\* max_distance * 10 / depth of the point of circle c, as numerator over
\* denominator
Ratio(c) == [n |-> proj_call.max_distance * 10 * proj_call.pts_2d[c.point].depth.d,
             d |-> proj_call.pts_2d[c.point].depth.n]

\* C9 as stated: the palette index of every drawn point is
\* clamp(round(max_distance * 10 / d), 0, 255).
C9_IndexRounded ==
    Projected =>
        \A k \in 1..Len(proj_call.circles) :
            LET c == proj_call.circles[k]
            IN c.cmap = Clip(RoundDiv(Ratio(c).n, Ratio(c).d), 0, 255)

\* C9 amended: the palette index of every drawn point is max_distance * 10 / d
\* cut toward zero to an integer, then clamped to 0..255: 255 when the ratio
\* is 255 or more, 0 when it is below 1, and otherwise the integer q with
\* q <= ratio < q + 1.
C9_IndexTruncated ==
    Projected =>
        \A k \in 1..Len(proj_call.circles) :
            LET c == proj_call.circles[k]
                n == Ratio(c).n
                d == Ratio(c).d
            IN /\ c.cmap \in 0..255
               /\ n \div d >= 255 => c.cmap = 255
               /\ n < d => c.cmap = 0
               /\ (d <= n /\ n \div d < 255) =>
                     (c.cmap * d <= n /\ n < (c.cmap + 1) * d)

C9_Witness ==
    /\ proj_call.fn = "project_pts_on_img"
    /\ \E k \in 1..Len(proj_call.circles) :
          LET c == proj_call.circles[k]
          IN /\ 2 * Ratio(c).n = 175 * Ratio(c).d
             /\ c.cmap = 87

\* C10: a circle is drawn for point i exactly when its pixel (u, v) has
\* 0 <= u < W and 0 <= v < H, once, and in the order of the points.
C10_FovMask ==
    proj_call.fn = "project_pts_on_img" =>
        LET W == proj_call.shape.W
            H == proj_call.shape.H
            pts == proj_call.pts_2d
            Masked == {i \in 1..Len(pts) :
                          /\ 0 <= pts[i].x
                          /\ pts[i].x * pts[i].depth.d < W * pts[i].depth.n
                          /\ 0 <= pts[i].y
                          /\ pts[i].y * pts[i].depth.d < H * pts[i].depth.n}
        IN /\ Len(proj_call.circles) = Cardinality(Masked)
           /\ {proj_call.circles[k].point : k \in 1..Len(proj_call.circles)} = Masked
           /\ \A j, k \in 1..Len(proj_call.circles) :
                 j < k => proj_call.circles[j].point < proj_call.circles[k].point

C10_Witness ==
    /\ proj_call.fn = "project_pts_on_img"
    /\ proj_call.shape = [H |-> 3, W |-> 4]
    /\ proj_call.lidar2img_rt[1] = <<1, 0, 0, 0>>
    /\ proj_call.points = << <<4, 2, 1>>, <<3, 1, 1>> >>
    /\ Len(proj_call.circles) = 1
    /\ proj_call.circles[1].point = 2
    /\ proj_call.circles[1].center = <<3, 1>>

\* the corner pairs of the 12 edges of a box, as unordered pairs
Edges == {{e[1], e[2]} : e \in {line_indices[k] : k \in 1..Len(line_indices)}}

\* C11: plot_rect3d_on_img draws, for each of the num_rects boxes, exactly 12
\* segments, between the pixels of the corner pairs (0,1), (0,3), (0,4), (1,2),
\* (1,5), (3,2), (3,7), (4,5), (4,7), (2,6), (5,6), (6,7); the pairs are
\* distinct as unordered pairs and every corner 0..7 ends exactly 3 of them;
\* all 12 are drawn whatever the corner coordinates, on the canvas or not.
C11_TwelveEdges ==
    proj_call.fn = "draw_lidar_bbox3d_on_img" =>
        LET num_rects == Len(proj_call.points) \div 8
            pairs == << <<0, 1>>, <<0, 3>>, <<0, 4>>, <<1, 2>>, <<1, 5>>, <<3, 2>>,
                        <<3, 7>>, <<4, 5>>, <<4, 7>>, <<2, 6>>, <<5, 6>>, <<6, 7>> >>
        IN /\ Len(proj_call.lines) = 12 * num_rects
           /\ \A i \in 0..(num_rects - 1) : \A k \in 1..12 :
                 LET line == proj_call.lines[12 * i + k]
                 IN /\ line.rect = i + 1
                    /\ line.start = CornerPixel(proj_call.pts_2d[8 * i + pairs[k][1] + 1])
                    /\ line.end = CornerPixel(proj_call.pts_2d[8 * i + pairs[k][2] + 1])
           /\ Cardinality(Edges) = 12
           /\ \A e \in Edges : Cardinality(e) = 2
           /\ \A v \in 0..7 : Cardinality({e \in Edges : v \in e}) = 3

\* two boxes drawn, with a segment that starts left of or above the canvas
\* and one that ends right of or below it
C11_Witness ==
    /\ proj_call.fn = "draw_lidar_bbox3d_on_img"
    /\ Len(proj_call.lines) = 24
    /\ \E m, n \in 1..Len(proj_call.lines) :
          /\ proj_call.lines[m].start[1] < 0 \/ proj_call.lines[m].start[2] < 0
          /\ \/ proj_call.lines[n].end[1] >= proj_call.shape.W
             \/ proj_call.lines[n].end[2] >= proj_call.shape.H

\* a call that was given an empty box list
EmptyBoxCall == box_call.fn # "none" /\ Len(box_call.args.bbox3d) = 0

\* a call of _draw_bboxes or _draw_bboxes_ind that raised nothing, handed no
\* box to the viewer and left every point colour as it was
DrewNothing ==
    /\ ~box_call.raised
    /\ box_call.boxes = <<>>
    /\ \A k \in 1..Len(box_call.ops) : box_call.ops[k] # "add_geometry:box"
    /\ box_call.points_colors = Tile(Gray, Len(box_call.args.pcd.val))

\* C15 as stated: with an empty box list _draw_bboxes, _draw_bboxes_ind and
\* _write_oriented_bbox raise no error, add no box geometry to the scene or
\* to the exported mesh, and change no point colour.
C15_EmptyIsNoOp ==
    EmptyBoxCall =>
        IF box_call.fn = "_write_oriented_bbox"
        THEN ~box_call.raised /\ box_call.meshes = <<>>
        ELSE DrewNothing

\* C15, amended: with an empty box list none of the three raises an error;
\* _draw_bboxes and _draw_bboxes_ind add no box geometry and change no point
\* colour; _write_oriented_bbox exports one box mesh, of size 0 at the origin.
C15_EmptyDrawsNothing ==
    EmptyBoxCall =>
        IF box_call.fn = "_write_oriented_bbox"
        THEN /\ ~box_call.raised
             /\ Len(box_call.meshes) = 1
             /\ box_call.meshes[1].center = <<0, 0, 0>>
             /\ box_call.meshes[1].extent = <<0, 0, 0>>
        ELSE DrewNothing

C15_Witness ==
    /\ EmptyBoxCall
    /\ box_call.fn = "_write_oriented_bbox"
    /\ Len(box_call.meshes) = 1

\* a call of _draw_bboxes_ind in 'xyz' mode on a point cloud
IndexedCall ==
    /\ box_call.fn = "_draw_bboxes_ind"
    /\ box_call.args.mode = "xyz"
    /\ box_call.args.pcd.some

C13_RotAxisChecked ==
    /\ (last.op = "__init__" /\ last.rot_axis \notin {0, 1, 2}) =>
           /\ last.raised /\ obj = "failed"
           /\ window = "none" /\ vis_ops = <<>>
           /\ ~has_pcd /\ processed = <<>>
    /\ (show_call.fn # "none" /\ show_call.args.rot_axis \notin {0, 1, 2}) =>
           /\ show_call.raised
           /\ show_call.window = "none" /\ show_call.ops = <<>>
           /\ show_call.boxes = <<>> /\ show_call.pcd_colors = <<>>

\* a Visualizer built with rot_axis = 3, points and a box, and
\* show_pts_index_boxes called with rot_axis = -1 and two boxes
C13_Witness ==
    /\ last.op = "__init__" /\ last.rot_axis = 3 /\ last.bbox3d = <<BoxA>>
    /\ obj = "failed"
    /\ show_call.fn = "show_pts_index_boxes"
    /\ show_call.args.rot_axis = -1
    /\ Len(show_call.args.bbox3d.val) = 2
    /\ show_call.raised

-----------------------------------------------------------------------------
(* Claims on class Visualizer *)

SegDrawn == obj = "alive" /\ last.op = "add_seg_mask" /\ ~last.raised

\* C1 as stated: the k-th add_seg_mask call translates its point group by
\* 1.2 * (k - 1) * E, E the x-extent of the base point cloud (0 for the first
\* call).  Offsets are in tenths.
C1_OffsetFromZero ==
    SegDrawn => last.offset = 12 * (seg_num - 1) * XExtent(pcd_points)

\* C1 amended: the k-th add_seg_mask call translates its point group by
\* 1.2 * k * E: 1.2 E for the first call, 2.4 E for the second, 3.6 E for the
\* third, and every x coordinate handed to the viewer is moved by that much.
C1_OffsetFromOne ==
    SegDrawn =>
        /\ last.offset = 12 * seg_num * XExtent(pcd_points)
        /\ seg_num = 1 => last.offset = 12 * XExtent(pcd_points)
        /\ seg_num = 2 => last.offset = 24 * XExtent(pcd_points)
        /\ seg_num = 3 => last.offset = 36 * XExtent(pcd_points)
        /\ \E m \in SegMasks :
              /\ Len(last.seg_points) = Len(m)
              /\ \A i \in 1..Len(m) :
                    last.seg_points[i] =
                        <<10 * m[i][1] + last.offset, 10 * m[i][2], 10 * m[i][3]>>

C1_Witness ==
    /\ SegDrawn
    /\ seg_num = 3
    /\ XExtent(pcd_points) = 3
    /\ last.offset = 108

\* C2: seg_num is 0 after construction, add_seg_mask adds exactly 1 to it,
\* no other method changes it, the base point cloud is the same after every
\* method call, and each offset is 1.2 * the counter after the increment *
\* the x-extent of the base point cloud.
C2_SegCounter ==
    [][ /\ obj = "absent" /\ obj' = "alive" => seg_num' = 0
        /\ obj = "alive" =>
              /\ pcd_points' = pcd_points
              /\ IF last'.op = "add_seg_mask"
                 THEN /\ seg_num' = seg_num + 1
                      /\ ~last'.raised =>
                            last'.offset = 12 * seg_num' * XExtent(pcd_points)
                 ELSE seg_num' = seg_num
      ]_vars

C2_Witness ==
    /\ obj = "alive"
    /\ seg_num = 2
    /\ last.op = "add_bboxes"
    /\ ~last.raised
    /\ Len(processed) > 0

\* C3: once show() has destroyed the window, every later add_bboxes,
\* add_seg_mask or show fails with an error and issues no viewer operation.
C3_ClosedIsTerminal ==
    [][ (obj = "alive" /\ window = "destroyed") =>
            (last'.raised /\ vis_ops' = <<>>) ]_vars

\* the boxes processed so far that contain point i
Hits(i) ==
    {k \in 1..Len(processed) :
        i \in get_point_indices_within_bounding_box(processed[k].box, pcd_points)}

Last(S) == CHOOSE k \in S : \A j \in S : j <= k

\* C5: in mode 'xyz' every point has the in-box colour of the last processed
\* box that contains it (call order, then list order), and its base colour
\* when no processed box contains it.
C5_LastBoxWins ==
    (obj = "alive" /\ has_pcd /\ cfg.mode = "xyz") =>
        \A i \in 1..Len(pcd_points) :
            points_colors[i] = IF Hits(i) = {} THEN cfg.point_color
                               ELSE processed[Last(Hits(i))].color

C5_Witness ==
    /\ obj = "alive" /\ has_pcd /\ cfg.mode = "xyz"
    /\ \E i, j \in 1..Len(pcd_points) :
          /\ Cardinality(Hits(i)) = 2
          /\ processed[1].color = Blue
          /\ processed[2].color = Red
          /\ points_colors[i] = Red
          /\ Hits(j) = {1}
          /\ points_colors[j] = Blue

\* C6: add_bboxes called twice in a row with the same array and the same
\* in-box colour leaves every point colour as the first call left it.
C6_Idempotent ==
    [][ ( /\ obj = "alive"
          /\ last.op = "add_bboxes" /\ ~last.raised
          /\ last'.op = "add_bboxes"
          /\ last'.reused \/ last'.bbox3d = last.bbox3d
          /\ last'.in_box_color = last.in_box_color )
        => (points_colors' = points_colors /\ pcd_colors' = pcd_colors) ]_vars

C6_Witness ==
    /\ obj = "alive" /\ has_pcd /\ cfg.mode = "xyz"
    /\ last.op = "add_bboxes" /\ last.reused
    /\ Len(processed) = 2
    /\ processed[1] = processed[2]
    /\ \E i \in 1..Len(pcd_points) : points_colors[i] = processed[2].color
    /\ \E i \in 1..Len(pcd_points) : points_colors[i] = cfg.point_color

====
